---- MODULE Spec2Model ----
(***************************************************************************)
(* Model of the generalPurpose agent:                                      *)
(*   - mcp_client/client.py : the OAuth token cache (_get_access_token)    *)
(*     and the gateway client factory (get_streamable_http_mcp_client);    *)
(*   - main.py              : the module-level construction of             *)
(*     strands_mcp_client and the streaming entrypoint invoke.             *)
(* Time is time.time() in whole seconds.  A token value is the one-element *)
(* tuple <<n>> naming the n-th token request that produced it; the empty   *)
(* tuple is Python's None (falsy).                                         *)
(***************************************************************************)
EXTENDS Integers, Sequences, FiniteSets, TLC

\* ---------------------------------------------------------------- bounds
MaxTicks == 3
MaxCalls == 3
MaxEvents == 3

\* ------------------------------------------------------ program constants
SafetyBuffer == 300
DefaultExpiresIn == 3600

\* --------------------------------------------------------- environment
Deltas == {2, 299}
ExpiresInVals == {300, 600}
Callers == {"main", "worker"}
Requests == {"r1", "r2"}
Messages == {"boom", ""}

None == <<>>

\* A parsed token-endpoint body.  json = FALSE is a body response.json()
\* cannot parse.  exp_kind = "absent": no expires_in key; "num": a number
\* of seconds; "str": a JSON value that is not a number.
Bodies ==
  { b \in [json : BOOLEAN, has_token : BOOLEAN,
           exp_kind : {"absent", "num", "str"}, exp_val : ExpiresInVals \cup {0}] :
      /\ (b.exp_kind = "num") <=> (b.exp_val # 0)
      /\ ~b.json => (~b.has_token /\ b.exp_kind = "absent")
      /\ ~b.has_token => b.exp_kind = "absent" }

\* What requests.post gives back: reachable = FALSE is a transport fault;
\* ok is the HTTP status class, which the code never reads.
Responses ==
  { r \in [reachable : BOOLEAN, ok : BOOLEAN, body : Bodies] :
      ~r.reachable => (~r.ok /\ ~r.body.json) }

NoResponse == [reachable |-> FALSE, ok |-> FALSE,
               body |-> [json |-> FALSE, has_token |-> FALSE,
                         exp_kind |-> "absent", exp_val |-> 0],
               token |-> None]

\* The response r as the local variable holds it, n being the number of the
\* token request it answers: the access_token of its body is <<n>>.
Answer(r, n) ==
  [reachable |-> r.reachable, ok |-> r.ok, body |-> r.body,
   token |-> IF r.body.has_token THEN <<n>> ELSE None]

VARIABLES
  now,            \* the wall clock, time.time()
  ticks,          \* how often the clock has advanced (bounded)
  token_cache,    \* client.py _token_cache: [token, expires_at]
  requests,       \* token requests issued so far (requests.post calls)
  pc,             \* per caller: position inside _get_access_token
  current_time,   \* per caller: local current_time
  response,       \* per caller: local response
  access_token,   \* per caller: local access_token
  expires_in,     \* per caller: local expires_in, [kind, val]
  outcome,        \* per caller: "none", "return" or the fault raised
  ret,            \* per caller: the value returned
  issued,         \* per caller: token requests issued by the current call
  entry_cache,    \* per caller: _token_cache when the call started
  log,            \* completed calls, in completion order
  expiry_of,      \* the token whose fetch wrote _token_cache["expires_at"]
  env,            \* os.getenv: [local_dev, gateway_url, memory_id] set or not
  import_pc,      \* position of the import of main.py (lines 13-20)
  strands_mcp_client, \* main.py module global: [kind, token]
  client_users,   \* requests inside "with strands_mcp_client"
  rpc,            \* per request: position inside invoke
  session_manager,\* per request: local session_manager
  mem_log,        \* per request: level logged by the memory step
  pulled,         \* per request: events pulled from the stream so far
  out,            \* per request: fragments handed to the caller so far
  failed,         \* per request: the backend step that raised, or "none"
  err,            \* per request: str(e) of the fault raised
  import_fault,   \* the fault that ended the import of main.py, or "none"
  tools,          \* per request: local tools, the list list_tools_sync gave
  steps           \* per request: the steps of invoke executed so far

tokvars == <<token_cache, requests, pc, current_time, response, access_token,
             expires_in, outcome, ret, issued, entry_cache, log, expiry_of>>
appvars == <<env, import_pc, strands_mcp_client, client_users, rpc,
             session_manager, mem_log, pulled, out, failed, err,
             import_fault, tools, steps>>
vars == <<now, ticks, tokvars, appvars>>

Truthy(v) == v # None

NoExp == [kind |-> "absent", val |-> 0]

Active(c) == pc[c] \notin {"idle", "returned", "raised"}

\* The record a completed call leaves in the log: the time it read, the
\* token requests it issued, whether it returned, the value it returned,
\* the expires_in it used (0 when it stored none) and the cached expiry it
\* left behind.
Done(c, oc, val, cache) ==
  [T |-> current_time[c], issued |-> issued[c], ok |-> (oc = "return"),
   ret |-> val,
   E |-> IF oc = "return" /\ issued[c] = 1 THEN expires_in[c].val ELSE 0,
   expires_at |-> cache.expires_at]

\* --------------------------------------------------------------- clock
Tick ==
  /\ ticks < MaxTicks
  /\ \E d \in Deltas : now' = now + d
  /\ ticks' = ticks + 1
  /\ UNCHANGED <<tokvars, appvars>>

\* ------------------------------------------- client.py _get_access_token
\* line 18: a caller enters the function.
Enter(c) ==
  /\ ~Active(c)
  /\ Len(log) + Cardinality({d \in Callers : Active(d)}) < MaxCalls
  /\ pc' = [pc EXCEPT ![c] = "L23"]
  /\ current_time' = [current_time EXCEPT ![c] = 0]
  /\ response' = [response EXCEPT ![c] = NoResponse]
  /\ access_token' = [access_token EXCEPT ![c] = None]
  /\ expires_in' = [expires_in EXCEPT ![c] = NoExp]
  /\ outcome' = [outcome EXCEPT ![c] = "none"]
  /\ ret' = [ret EXCEPT ![c] = None]
  /\ issued' = [issued EXCEPT ![c] = 0]
  /\ entry_cache' = [entry_cache EXCEPT ![c] = token_cache]
  /\ UNCHANGED <<now, ticks, expiry_of, token_cache, requests, log>>

\* A direct call of _get_access_token.
Call(c) == Enter(c) /\ UNCHANGED appvars

\* line 23: current_time = time.time()
ReadTime(c) ==
  /\ pc[c] = "L23"
  /\ current_time' = [current_time EXCEPT ![c] = now]
  /\ pc' = [pc EXCEPT ![c] = "L26"]
  /\ UNCHANGED appvars
  /\ UNCHANGED <<now, ticks, expiry_of, token_cache, requests, response, access_token,
                 expires_in, outcome, ret, issued, entry_cache, log>>

\* line 26: if (_token_cache["token"] and ...
CheckToken(c) ==
  /\ pc[c] = "L26"
  /\ pc' = [pc EXCEPT ![c] = IF Truthy(token_cache.token) THEN "L27" ELSE "L31"]
  /\ UNCHANGED appvars
  /\ UNCHANGED <<now, ticks, expiry_of, token_cache, requests, current_time, response,
                 access_token, expires_in, outcome, ret, issued, entry_cache, log>>

StillValid_NoBuffer(t, expires_at) == t < expires_at

StillValid_Inclusive(t, expires_at) == t <= expires_at - SafetyBuffer

\* line 27: the cached token is still valid, with the 5-minute buffer
StillValid(t, expires_at) == t < expires_at - SafetyBuffer

\* line 27: ... current_time < _token_cache["expires_at"] - 300):
CheckExpiry(c) ==
  /\ pc[c] = "L27"
  /\ pc' = [pc EXCEPT ![c] =
              IF StillValid(current_time[c], token_cache.expires_at)
              THEN "L28" ELSE "L31"]
  /\ UNCHANGED appvars
  /\ UNCHANGED <<now, ticks, expiry_of, token_cache, requests, current_time, response,
                 access_token, expires_in, outcome, ret, issued, entry_cache, log>>

\* line 28: return _token_cache["token"]
ReturnCached(c) ==
  /\ pc[c] = "L28"
  /\ pc' = [pc EXCEPT ![c] = "returned"]
  /\ outcome' = [outcome EXCEPT ![c] = "return"]
  /\ ret' = [ret EXCEPT ![c] = token_cache.token]
  /\ log' = Append(log, Done(c, "return", token_cache.token, token_cache))
  /\ UNCHANGED appvars
  /\ UNCHANGED <<now, ticks, expiry_of, token_cache, requests, current_time, response,
                 access_token, expires_in, issued, entry_cache>>

\* The fault requests.post raises when the endpoint cannot be reached.
PostFault(r) == IF r.reachable THEN "none" ELSE "ConnectionError"

\* lines 31-39: response = requests.post(...)
Post(c) ==
  /\ pc[c] = "L31"
  /\ requests' = requests + 1
  /\ issued' = [issued EXCEPT ![c] = issued[c] + 1]
  /\ \E r \in Responses :
       /\ response' = [response EXCEPT ![c] = Answer(r, requests + 1)]
       /\ IF PostFault(r) = "none"
          THEN /\ pc' = [pc EXCEPT ![c] = "L41"]
               /\ UNCHANGED <<outcome, log>>
          ELSE /\ pc' = [pc EXCEPT ![c] = "raised"]
               /\ outcome' = [outcome EXCEPT ![c] = PostFault(r)]
               /\ log' = Append(log, [Done(c, PostFault(r), None, token_cache)
                                        EXCEPT !.issued = issued[c] + 1])
  /\ UNCHANGED appvars
  /\ UNCHANGED <<now, ticks, expiry_of, token_cache, current_time, access_token,
                 expires_in, ret, entry_cache>>

ParseFault_NoKeyCheck(r) ==
  IF ~r.body.json THEN "JSONDecodeError" ELSE "none"

\* lines 41-42: the fault raised by response.json() or by
\* token_data["access_token"]; the status of the response is not looked at.
ParseFault(r) ==
  IF ~r.body.json THEN "JSONDecodeError"
  ELSE IF ~r.body.has_token THEN "KeyError"
  ELSE "none"

GetExpiresIn_NoDefault(b) ==
  IF b.exp_kind = "absent" THEN [kind |-> "num", val |-> 0]
  ELSE [kind |-> b.exp_kind, val |-> b.exp_val]

\* line 43: token_data.get("expires_in", 3600)
GetExpiresIn(b) ==
  IF b.exp_kind = "absent" THEN [kind |-> "num", val |-> DefaultExpiresIn]
  ELSE [kind |-> b.exp_kind, val |-> b.exp_val]

\* lines 41-43: parse the body into access_token and expires_in.
Parse(c) ==
  /\ pc[c] = "L41"
  /\ IF ParseFault(response[c]) = "none"
     THEN /\ access_token' = [access_token EXCEPT ![c] = response[c].token]
          /\ expires_in' = [expires_in EXCEPT ![c] = GetExpiresIn(response[c].body)]
          /\ pc' = [pc EXCEPT ![c] = "L46"]
          /\ UNCHANGED <<outcome, log>>
     ELSE /\ pc' = [pc EXCEPT ![c] = "raised"]
          /\ outcome' = [outcome EXCEPT ![c] = ParseFault(response[c])]
          /\ log' = Append(log, Done(c, ParseFault(response[c]), None, token_cache))
          /\ UNCHANGED <<access_token, expires_in>>
  /\ UNCHANGED appvars
  /\ UNCHANGED <<now, ticks, expiry_of, token_cache, requests, current_time, response,
                 ret, issued, entry_cache>>

\* line 46: _token_cache["token"] = access_token
StoreToken(c) ==
  /\ pc[c] = "L46"
  /\ token_cache' = [token_cache EXCEPT !.token = access_token[c]]
  /\ pc' = [pc EXCEPT ![c] = "L47"]
  /\ UNCHANGED appvars
  /\ UNCHANGED <<now, ticks, expiry_of, requests, current_time, response,
                 access_token, expires_in, outcome, ret, issued, entry_cache, log>>

ExpiresAt_Relative(t, e) == e

Returned_FromCache(local, cache) == cache.token

\* line 49: return access_token, the local variable
Returned(local, cache) == local

\* line 47: current_time + expires_in
ExpiresAt(t, e) == t + e

\* lines 47-49: _token_cache["expires_at"] = current_time + expires_in;
\* return access_token.  Adding a non-number to a float raises TypeError.
StoreExpiry(c) ==
  /\ pc[c] = "L47"
  /\ IF expires_in[c].kind = "num"
     THEN /\ token_cache' = [token_cache EXCEPT
                               !.expires_at = ExpiresAt(current_time[c], expires_in[c].val)]
          /\ pc' = [pc EXCEPT ![c] = "returned"]
          /\ outcome' = [outcome EXCEPT ![c] = "return"]
          /\ expiry_of' = access_token[c]
          /\ ret' = [ret EXCEPT ![c] = Returned(access_token[c], token_cache')]
          /\ log' = Append(log, Done(c, "return",
                                     Returned(access_token[c], token_cache'),
                                     token_cache'))
     ELSE /\ pc' = [pc EXCEPT ![c] = "raised"]
          /\ outcome' = [outcome EXCEPT ![c] = "TypeError"]
          /\ log' = Append(log, Done(c, "TypeError", None, token_cache))
          /\ UNCHANGED <<token_cache, ret, expiry_of>>
  /\ UNCHANGED appvars
  /\ UNCHANGED <<now, ticks, requests, current_time, response, access_token,
                 expires_in, issued, entry_cache>>

\* One step of caller c inside _get_access_token.
GetAccessTokenStep(c) ==
  \/ ReadTime(c)
  \/ CheckToken(c)
  \/ CheckExpiry(c)
  \/ ReturnCached(c)
  \/ Post(c)
  \/ Parse(c)
  \/ StoreToken(c)
  \/ StoreExpiry(c)

\* ------------------------------ main.py lines 13-20, client.py lines 52-60
Envs == [local_dev : BOOLEAN, gateway_url : BOOLEAN, memory_id : BOOLEAN]

NoClient == [kind |-> "none", token |-> None]

\* main.py line 17: nullcontext(SimpleNamespace(list_tools_sync=lambda: []))
NullClient == [kind |-> "null", token |-> None]

\* client.py line 60: the MCPClient whose transport factory closes over
\* access_token, the value _get_access_token returned at line 59.
GatewayClient(t) == [kind |-> "mcp", token |-> t]

\* main.py lines 13-18: the import of main.py reaches the LOCAL_DEV test.
ImportMain ==
  /\ import_pc = "L13"
  /\ IF env.local_dev
     THEN /\ strands_mcp_client' = NullClient
          /\ import_pc' = "ready"
     ELSE /\ import_pc' = "L56"
          /\ UNCHANGED strands_mcp_client
  /\ UNCHANGED <<now, ticks, tokvars, env, client_users, rpc, session_manager,
                 mem_log, pulled, out, failed, err,
                 import_fault, tools, steps>>

GatewayUrlMissing_Never(e) == FALSE

\* client.py lines 56-57: gateway_url = os.getenv("GATEWAY_URL");
\* if not gateway_url
GatewayUrlMissing(e) == ~e.gateway_url

\* client.py lines 56-59: GATEWAY_URL is tested, then _get_access_token is
\* called; a missing GATEWAY_URL raises RuntimeError out of the import.
GetClient ==
  /\ import_pc = "L56"
  /\ IF GatewayUrlMissing(env)
     THEN /\ import_pc' = "failed"
          /\ import_fault' = "RuntimeError"
          /\ UNCHANGED <<now, ticks, tokvars>>
     ELSE /\ Enter("main")
          /\ import_pc' = "L59"
          /\ UNCHANGED import_fault
  /\ UNCHANGED <<env, strands_mcp_client, client_users, rpc, session_manager,
                 mem_log, pulled, out, failed, err, tools, steps>>

\* client.py lines 59-60, main.py line 20: _get_access_token has returned
\* or raised; the client is built once, around the token returned.
MakeClient ==
  /\ import_pc = "L59"
  /\ pc["main"] \in {"returned", "raised"}
  /\ IF pc["main"] = "returned"
     THEN /\ strands_mcp_client' = GatewayClient(ret["main"])
          /\ import_pc' = "ready"
          /\ UNCHANGED import_fault
     ELSE /\ import_pc' = "failed"
          /\ import_fault' = outcome["main"]
          /\ UNCHANGED strands_mcp_client
  /\ UNCHANGED <<now, ticks, tokvars, env, client_users, rpc, session_manager,
                 mem_log, pulled, out, failed, err, tools, steps>>

\* ------------------------------------------------- main.py invoke
\* The events agent.stream_async can deliver: has_data is "data" in event,
\* is_str is isinstance(event["data"], str).
Events ==
  { [has_data |-> TRUE, is_str |-> TRUE, data |-> "a"],
    [has_data |-> TRUE, is_str |-> TRUE, data |-> "b"],
    [has_data |-> TRUE, is_str |-> FALSE, data |-> "{}"],
    [has_data |-> FALSE, is_str |-> FALSE, data |-> ""] }

IsText_AnyData(e) == e.has_data

\* line 234: "data" in event and isinstance(event["data"], str)
IsText(e) == e.has_data /\ e.is_str

\* line 246: f"I encountered an error: {str(e)}"
ErrorFragment(m) == "I encountered an error: " \o m

\* Request r executes the step named s of invoke.
Step(r, s) == steps' = [steps EXCEPT ![r] = Append(steps[r], s)]

\* lines 150-155: a request enters invoke and resolves its identifiers.
Invoke(r) ==
  /\ import_pc = "ready"
  /\ rpc[r] = "idle"
  /\ rpc' = [rpc EXCEPT ![r] = "L158"]
  /\ Step(r, "RESOLVE_IDENTITY")
  /\ UNCHANGED <<now, ticks, tokvars, env, import_pc, strands_mcp_client,
                 client_users, session_manager, mem_log, pulled, out, failed, err,
                 import_fault, tools>>

MemorySession_KeepsFaulty(has_id, raised) ==
  IF ~has_id THEN [manager |-> "None", logged |-> "warning"]
  ELSE IF raised THEN [manager |-> "manager", logged |-> "error"]
  ELSE [manager |-> "manager", logged |-> "info"]

\* lines 158-184: session_manager and the level logged, given whether
\* MEMORY_ID is set and whether AgentCoreMemorySessionManager(...) raised.
MemorySession(has_id, raised) ==
  IF ~has_id THEN [manager |-> "None", logged |-> "warning"]
  ELSE IF raised THEN [manager |-> "None", logged |-> "error"]
  ELSE [manager |-> "manager", logged |-> "info"]

\* lines 158-184: the memory session; a fault of its constructor is logged
\* and leaves session_manager None.
InitMemory(r) ==
  /\ rpc[r] = "L158"
  /\ \E raised \in (IF env.memory_id THEN BOOLEAN ELSE {FALSE}) :
       /\ session_manager' = [session_manager EXCEPT ![r] =
                                MemorySession(env.memory_id, raised).manager]
       /\ mem_log' = [mem_log EXCEPT ![r] =
                        MemorySession(env.memory_id, raised).logged]
  /\ rpc' = [rpc EXCEPT ![r] = "L188"]
  /\ Step(r, "INIT_MEMORY")
  /\ UNCHANGED <<now, ticks, tokvars, env, import_pc, strands_mcp_client,
                 client_users, pulled, out, failed, err, import_fault, tools>>

\* A step outside the try block raised: the fault leaves invoke.
Propagate(r, step) ==
  /\ rpc' = [rpc EXCEPT ![r] = "raised"]
  /\ failed' = [failed EXCEPT ![r] = step]

\* lines 188-193: AgentCoreCodeInterpreter(...), outside any try.
CreateCodeInterpreter(r) ==
  /\ rpc[r] = "L188"
  /\ \E raised \in BOOLEAN :
       IF raised THEN Propagate(r, "sandbox")
       ELSE rpc' = [rpc EXCEPT ![r] = "L195"] /\ UNCHANGED failed
  /\ Step(r, "INIT_SANDBOX")
  /\ UNCHANGED <<now, ticks, tokvars, env, import_pc, strands_mcp_client,
                 client_users, session_manager, mem_log, pulled, out, err,
                 import_fault, tools>>

\* line 195: with strands_mcp_client as client; the null client cannot
\* fail, the gateway client connects with its bearer token and may.
EnterClient(r) ==
  /\ rpc[r] = "L195"
  /\ \E raised \in BOOLEAN :
       IF raised /\ strands_mcp_client.kind = "mcp"
       THEN Propagate(r, "gateway") /\ UNCHANGED client_users
       ELSE /\ rpc' = [rpc EXCEPT ![r] = "L197"]
            /\ client_users' = client_users \cup {r}
            /\ UNCHANGED failed
  /\ Step(r, "ACQUIRE_TOOLS")
  /\ UNCHANGED <<now, ticks, tokvars, env, import_pc, strands_mcp_client,
                 session_manager, mem_log, pulled, out, err, import_fault, tools>>

\* What client.list_tools_sync() can return: [] from the lambda of main.py
\* line 17, the tools of the gateway (possibly none) from the MCP client.
ToolLists(client) ==
  IF client.kind = "mcp" THEN {<<>>, <<"gateway_tool">>} ELSE {<<>>}

\* line 197: tools = client.list_tools_sync(), outside any try.
ListTools(r) ==
  /\ rpc[r] = "L197"
  /\ \E raised \in BOOLEAN :
       IF raised /\ strands_mcp_client.kind = "mcp"
       THEN /\ Propagate(r, "tools")
            /\ client_users' = client_users \ {r}
            /\ UNCHANGED tools
       ELSE /\ rpc' = [rpc EXCEPT ![r] = "L200"]
            /\ \E l \in ToolLists(strands_mcp_client) :
                 tools' = [tools EXCEPT ![r] = l]
            /\ UNCHANGED <<failed, client_users>>
  /\ UNCHANGED <<now, ticks, tokvars, env, import_pc, strands_mcp_client,
                 session_manager, mem_log, pulled, out, err, import_fault, steps>>

\* lines 200-226: Agent(model=load_model(), ...), outside any try.
BuildSession(r) ==
  /\ rpc[r] = "L200"
  /\ \E raised \in BOOLEAN :
       IF raised
       THEN Propagate(r, "session") /\ client_users' = client_users \ {r}
       ELSE /\ rpc' = [rpc EXCEPT ![r] = "L230"]
            /\ UNCHANGED <<failed, client_users>>
  /\ Step(r, "BUILD_SESSION")
  /\ UNCHANGED <<now, ticks, tokvars, env, import_pc, strands_mcp_client,
                 session_manager, mem_log, pulled, out, err, import_fault, tools>>

\* lines 244-245: except Exception as e: log.error(...)
Caught(r, m) ==
  /\ rpc' = [rpc EXCEPT ![r] = "L246"]
  /\ failed' = [failed EXCEPT ![r] = "stream"]
  /\ err' = [err EXCEPT ![r] = m]

\* line 230: stream = agent.stream_async(payload.get("prompt")), in the try.
StartStream(r) ==
  /\ rpc[r] = "L230"
  /\ \/ rpc' = [rpc EXCEPT ![r] = "L232"] /\ UNCHANGED <<failed, err>>
     \/ \E m \in Messages : Caught(r, m)
  /\ Step(r, "RUN")
  /\ UNCHANGED <<now, ticks, tokvars, env, import_pc, strands_mcp_client,
                 client_users, session_manager, mem_log, pulled, out,
                 import_fault, tools>>

\* lines 232-234: async for event in stream pulls the next event: an
\* event, the end of the stream, or a fault.
Pull(r) ==
  /\ rpc[r] = "L232"
  /\ \/ /\ Len(pulled[r]) < MaxEvents
        /\ \E e \in Events :
             /\ pulled' = [pulled EXCEPT ![r] = Append(pulled[r], e)]
             /\ rpc' = [rpc EXCEPT ![r] = IF IsText(e) THEN "L235" ELSE "L232"]
        /\ UNCHANGED <<failed, err>>
     \/ /\ rpc' = [rpc EXCEPT ![r] = "exit"]
        /\ UNCHANGED <<pulled, failed, err>>
     \/ /\ \E m \in Messages : Caught(r, m)
        /\ UNCHANGED pulled
  /\ UNCHANGED <<now, ticks, tokvars, env, import_pc, strands_mcp_client,
                 client_users, session_manager, mem_log, out,
                 import_fault, tools, steps>>

Forward_Withheld(o, e) == o

\* line 235: yield event["data"] hands the payload of event e to the
\* caller, after the fragments o handed over before.
Forward(o, e) == Append(o, e.data)

\* line 235: yield event["data"]; the event is the one pulled last.
Yield(r) ==
  /\ rpc[r] = "L235"
  /\ out' = [out EXCEPT ![r] = Forward(out[r], pulled[r][Len(pulled[r])])]
  /\ rpc' = [rpc EXCEPT ![r] = "L232"]
  /\ UNCHANGED <<now, ticks, tokvars, env, import_pc, strands_mcp_client,
                 client_users, session_manager, mem_log, pulled, failed, err,
                 import_fault, tools, steps>>

Report_Restart(o, m) == <<ErrorFragment(m)>>

\* The fragments handed to the caller once the fault with message m is
\* reported after the fragments o.
Report(o, m) == Append(o, ErrorFragment(m))

\* line 246: yield f"I encountered an error: {str(e)}"
YieldError(r) ==
  /\ rpc[r] = "L246"
  /\ out' = [out EXCEPT ![r] = Report(out[r], err[r])]
  /\ rpc' = [rpc EXCEPT ![r] = "exit"]
  /\ UNCHANGED <<now, ticks, tokvars, env, import_pc, strands_mcp_client,
                 client_users, session_manager, mem_log, pulled, failed, err,
                 import_fault, tools, steps>>

\* The with block of line 195 is left and the generator is exhausted.
ExitClient(r) ==
  /\ rpc[r] = "exit"
  /\ client_users' = client_users \ {r}
  /\ rpc' = [rpc EXCEPT ![r] = "done"]
  /\ UNCHANGED <<now, ticks, tokvars, env, import_pc, strands_mcp_client,
                 session_manager, mem_log, pulled, out, failed, err,
                 import_fault, tools, steps>>

\* One step of request r inside invoke.
InvokeStep(r) ==
  \/ Invoke(r)
  \/ InitMemory(r)
  \/ CreateCodeInterpreter(r)
  \/ EnterClient(r)
  \/ ListTools(r)
  \/ BuildSession(r)
  \/ StartStream(r)
  \/ Pull(r)
  \/ Yield(r)
  \/ YieldError(r)
  \/ ExitClient(r)

\* One step of the only call the process makes, the one of client.py line
\* 59 during the import: it finds _token_cache["token"] None at line 26, so
\* lines 27-28 are never reached (CheckExpiry and ReturnCached are never
\* enabled in SpecApp).
ImportCallStep ==
  \/ ReadTime("main")
  \/ CheckToken("main")
  \/ Post("main")
  \/ Parse("main")
  \/ StoreToken("main")
  \/ StoreExpiry("main")

\* ------------------------------------------------------ specifications
InitCache ==
  /\ now = 0
  /\ ticks = 0
  /\ token_cache = [token |-> None, expires_at |-> 0]
  /\ requests = 0
  /\ pc = [c \in Callers |-> "idle"]
  /\ current_time = [c \in Callers |-> 0]
  /\ response = [c \in Callers |-> NoResponse]
  /\ access_token = [c \in Callers |-> None]
  /\ expires_in = [c \in Callers |-> NoExp]
  /\ outcome = [c \in Callers |-> "none"]
  /\ ret = [c \in Callers |-> None]
  /\ issued = [c \in Callers |-> 0]
  /\ entry_cache = [c \in Callers |-> [token |-> None, expires_at |-> 0]]
  /\ log = <<>>
  /\ expiry_of = None

InitRequests ==
  /\ strands_mcp_client = NoClient
  /\ client_users = {}
  /\ rpc = [r \in Requests |-> "idle"]
  /\ session_manager = [r \in Requests |-> "None"]
  /\ mem_log = [r \in Requests |-> "none"]
  /\ pulled = [r \in Requests |-> <<>>]
  /\ out = [r \in Requests |-> <<>>]
  /\ failed = [r \in Requests |-> "none"]
  /\ err = [r \in Requests |-> ""]
  /\ import_fault = "none"
  /\ tools = [r \in Requests |-> <<>>]
  /\ steps = [r \in Requests |-> <<>>]

\* client.py alone: main.py is not imported.
Init ==
  /\ InitCache
  /\ InitRequests
  /\ env = [local_dev |-> FALSE, gateway_url |-> TRUE, memory_id |-> FALSE]
  /\ import_pc = "off"

\* One caller calling _get_access_token again and again.
Next ==
  \/ Tick
  \/ Call("main")
  \/ GetAccessTokenStep("main")

Spec == Init /\ [][Next]_vars

\* Several callers (threads) inside _get_access_token at once, their steps
\* interleaved line by line, within one reading of the clock.
NextConc ==
  \/ \E c \in Callers : Call(c)
  \/ \E c \in Callers : GetAccessTokenStep(c)

SpecConc == Init /\ [][NextConc]_vars

\* The agent process: main.py is imported under some environment, then
\* serves requests.
InitApp ==
  /\ InitCache
  /\ InitRequests
  /\ env \in Envs
  /\ import_pc = "L13"

NextApp ==
  \/ Tick
  \/ ImportMain
  \/ GetClient
  \/ ImportCallStep
  \/ MakeClient
  \/ InvokeStep("r1")

SpecApp == InitApp /\ [][NextApp]_vars

\* The response the import's token request got in InitTwo: a success with
\* an access_token and no expires_in.
ImportResponse ==
  Answer([reachable |-> TRUE, ok |-> TRUE,
          body |-> [json |-> TRUE, has_token |-> TRUE,
                    exp_kind |-> "absent", exp_val |-> 0]], 1)

\* The process once main.py has been imported outside local-dev mode with
\* GATEWAY_URL set and MEMORY_ID unset: the call of client.py line 59 fetched
\* token <<1>> at time 0, and strands_mcp_client is the client built around
\* it at line 60.  No request has started.
InitTwo ==
  /\ now = 0
  /\ ticks = 0
  /\ token_cache = [token |-> <<1>>, expires_at |-> DefaultExpiresIn]
  /\ requests = 1
  /\ pc = [c \in Callers |-> IF c = "main" THEN "returned" ELSE "idle"]
  /\ current_time = [c \in Callers |-> 0]
  /\ response = [c \in Callers |->
                   IF c = "main" THEN ImportResponse ELSE NoResponse]
  /\ access_token = [c \in Callers |-> IF c = "main" THEN <<1>> ELSE None]
  /\ expires_in = [c \in Callers |->
                     IF c = "main" THEN GetExpiresIn(ImportResponse.body)
                     ELSE NoExp]
  /\ outcome = [c \in Callers |-> IF c = "main" THEN "return" ELSE "none"]
  /\ ret = [c \in Callers |-> IF c = "main" THEN <<1>> ELSE None]
  /\ issued = [c \in Callers |-> IF c = "main" THEN 1 ELSE 0]
  /\ entry_cache = [c \in Callers |-> [token |-> None, expires_at |-> 0]]
  /\ log = <<[T |-> 0, issued |-> 1, ok |-> TRUE, ret |-> <<1>>,
              E |-> DefaultExpiresIn, expires_at |-> DefaultExpiresIn]>>
  /\ expiry_of = <<1>>
  /\ env = [local_dev |-> FALSE, gateway_url |-> TRUE, memory_id |-> FALSE]
  /\ import_pc = "ready"
  /\ import_fault = "none"
  /\ strands_mcp_client = GatewayClient(<<1>>)
  /\ client_users = {}
  /\ rpc = [r \in Requests |-> "idle"]
  /\ session_manager = [r \in Requests |-> "None"]
  /\ mem_log = [r \in Requests |-> "none"]
  /\ pulled = [r \in Requests |-> <<>>]
  /\ out = [r \in Requests |-> <<>>]
  /\ failed = [r \in Requests |-> "none"]
  /\ err = [r \in Requests |-> ""]
  /\ tools = [r \in Requests |-> <<>>]
  /\ steps = [r \in Requests |-> <<>>]

\* invoke is a coroutine on one event loop: request r gives up control only
\* where it awaits the next event (line 232) or is suspended at a yield
\* (lines 235, 246); everything from line 151 to line 230 runs without a
\* suspension.  A request that has not started, has ended or has raised
\* does not hold the loop either.
Suspended(r) ==
  \/ rpc[r] \in {"idle", "L232", "done", "raised"}
  \/ rpc[r] = "exit" /\ failed[r] = "stream"

\* Two requests served by the one process, switching at suspension points.
NextTwo ==
  \E r \in Requests :
    /\ \A q \in Requests \ {r} : Suspended(q)
    /\ InvokeStep(r)

SpecTwo == InitTwo /\ [][NextTwo]_vars

\* ------------------------------------------------- token cache properties
Completed(c) == pc[c] \in {"returned", "raised"}

\* The call log[i] fetched a token and stored it with its expiry.
Fetched(i) == log[i].ok /\ log[i].issued = 1

\* No call completed strictly between log[i] and log[j] issued a request,
\* so the cache still holds what log[i] stored.
Untouched(i, j) == \A k \in (i + 1)..(j - 1) : log[k].issued = 0

\* C1 as stated: after a token is fetched at time T with expires_in = E, a
\* call at T + E - 301 issues a token request and a call at T + E - 299
\* returns the cached token without one.
C1_RefetchAt301_NotAt299 ==
  \A i \in 1..Len(log) : \A j \in 1..Len(log) :
    (i < j /\ Fetched(i) /\ Untouched(i, j)) =>
      /\ (log[j].T = log[i].T + log[i].E - 301) => log[j].issued = 1
      /\ (log[j].T = log[i].T + log[i].E - 299) =>
           (log[j].issued = 0 /\ log[j].ret = log[i].ret)

\* C1 amended: after a token is fetched at time T with expires_in = E, a
\* call at T + E - 301 returns the cached token without a token request,
\* and a call at T + E - 299, the cache still holding that token, issues a
\* token request.
C1_CachedAt301_RefetchAt299 ==
  \A i \in 1..Len(log) : \A j \in 1..Len(log) :
    (i < j /\ Fetched(i)) =>
      /\ (log[j].T = log[i].T + log[i].E - 301) =>
           (log[j].issued = 0 /\ log[j].ok /\ log[j].ret = log[i].ret)
      /\ (log[j].T = log[i].T + log[i].E - 299 /\ Untouched(i, j)) =>
           log[j].issued = 1

\* C1 witness: one fetch, then a call 301 seconds before its expiry and a
\* call 299 seconds before it.
C1_Witness ==
  /\ Len(log) >= 3
  /\ Fetched(1)
  /\ log[2].T = log[1].T + log[1].E - 301
  /\ log[3].T = log[1].T + log[1].E - 299

\* The cache as the call found it holds no usable token at the time read.
Miss(c) ==
  \/ ~Truthy(entry_cache[c].token)
  \/ current_time[c] >= entry_cache[c].expires_at - SafetyBuffer

\* C2: a call issues a token request iff no token is cached or the time T
\* it read satisfies T >= expires_at - 300; then it issues exactly one
\* request; otherwise it returns the cached token and leaves the cache
\* (token and expires_at) unchanged.
C2_RequestIffMiss ==
  \A c \in Callers :
    Completed(c) =>
      /\ (issued[c] > 0) <=> Miss(c)
      /\ Miss(c) => issued[c] = 1
      /\ ~Miss(c) => /\ outcome[c] = "return"
                     /\ ret[c] = entry_cache[c].token
                     /\ token_cache = entry_cache[c]

\* C2 witness: a call that found a cached token exactly at expires_at - 300
\* and fetched a new one.
C2_Witness ==
  /\ Completed("main")
  /\ Truthy(entry_cache["main"].token)
  /\ current_time["main"] = entry_cache["main"].expires_at - SafetyBuffer
  /\ issued["main"] = 1 /\ outcome["main"] = "return"

RECURSIVE IssuedUpTo(_)
\* Token requests issued by the first n completed calls.
IssuedUpTo(n) == IF n = 0 THEN 0 ELSE log[n].issued + IssuedUpTo(n - 1)

\* The calls 2..n all read a time before the token of the first call stops
\* being usable.
InWindow(n) ==
  \A k \in 2..n : log[k].T < log[1].T + log[1].E - SafetyBuffer

\* C3: from an empty cache, N >= 1 consecutive calls that all occur before
\* the fetched token stops being usable issue exactly one token request in
\* total and all return the same token.
C3_OneRequestInWindow ==
  \A n \in 1..Len(log) :
    (log[1].ok /\ InWindow(n)) =>
      /\ IssuedUpTo(n) = 1
      /\ \A k \in 1..n : log[k].ok /\ log[k].ret = log[1].ret

\* C3 witness: three calls inside the window of the first one, the clock
\* having advanced between them.
C3_Witness ==
  /\ Len(log) = 3 /\ log[1].ok /\ InWindow(3)
  /\ log[1].T < log[2].T /\ log[2].T < log[3].T

\* C8 as stated: a response body without access_token makes the call fail
\* with AuthError, not with a generic fault, and return no token.
C8_MissingTokenIsAuthError ==
  \A c \in Callers :
    (Completed(c) /\ issued[c] = 1 /\ response[c].reachable
       /\ response[c].body.json /\ ~response[c].body.has_token) =>
      (outcome[c] = "AuthError" /\ ret[c] = None)

\* C9 as stated: an unreachable endpoint or a non-success response makes
\* the call fail with AuthError; no token is returned and the cache is not
\* written, whatever the body contains.
C9_NonSuccessIsAuthError ==
  \A c \in Callers :
    (Completed(c) /\ issued[c] = 1
       /\ (~response[c].reachable \/ ~response[c].ok)) =>
      /\ outcome[c] = "AuthError"
      /\ ret[c] = None
      /\ token_cache = entry_cache[c]

\* The expires_in of a response body, 3600 when it carries none.
EffectiveExpiresIn(b) ==
  IF b.exp_kind = "absent" THEN 3600 ELSE b.exp_val

\* C10: a call that fetched a token leaves expires_at = T + 3600 when the
\* response carries no expires_in and T + E when it carries expires_in = E,
\* T being the time read at the start of the call.
C10_ExpiryFromCallStart ==
  \A c \in Callers :
    (pc[c] = "returned" /\ issued[c] = 1) =>
      /\ token_cache.expires_at =
           current_time[c] + EffectiveExpiresIn(response[c].body)
      /\ token_cache.token = ret[c]

\* C10 witness: a fetch without expires_in during which the clock moved.
C10_Witness ==
  /\ pc["main"] = "returned" /\ issued["main"] = 1
  /\ response["main"].body.exp_kind = "absent"
  /\ current_time["main"] > 0 /\ now > current_time["main"]

\* ----------------------------------------------------- invoke properties
RECURSIVE Fragments(_)
\* The payloads of the events of evs whose "data" field is a string, in order.
Fragments(evs) ==
  IF evs = <<>> THEN <<>>
  ELSE LET e == Head(evs)
           rest == Fragments(Tail(evs))
       IN IF e.has_data /\ e.is_str THEN <<e.data>> \o rest ELSE rest

\* The generator of request r has nothing more to yield.
Exhausted(r) == rpc[r] \in {"exit", "done"}

\* C4 as stated, in its headline form: no request uses an expired bearer
\* token for the gateway; when a request is at the point of acquiring its
\* tools, the token in the gateway client's Authorization header has not
\* reached its expiry (a fortiori for now < expires_at - 300).
C4_NoExpiredBearer ==
  \A r \in Requests :
    (rpc[r] = "L197" /\ strands_mcp_client.kind = "mcp") =>
      /\ strands_mcp_client.token = token_cache.token
      /\ now < token_cache.expires_at

\* C5: a stream that delivers k text fragments and then raises makes
\* invoke produce those k fragments in order, then exactly one fragment
\* "I encountered an error: <message>", and nothing after it.
C5_FragmentsThenOneError ==
  \A r \in Requests :
    (Exhausted(r) /\ failed[r] = "stream") =>
      out[r] = Fragments(pulled[r]) \o <<"I encountered an error: " \o err[r]>>

\* C5 witness: two fragments and an event without text were pulled, then
\* the stream raised "boom".
C5_Witness ==
  /\ rpc["r1"] = "done" /\ failed["r1"] = "stream" /\ err["r1"] = "boom"
  /\ Len(pulled["r1"]) = 3 /\ Len(out["r1"]) = 3
  /\ out["r1"][1] # out["r1"][2]

\* C6: when the stream ends without a fault, invoke produces the string
\* payloads of the stream's events, verbatim and in arrival order, nothing
\* added, dropped, duplicated or reordered; other events produce nothing.
C6_OutputIsTextFragments ==
  \A r \in Requests :
    (Exhausted(r) /\ failed[r] = "none") => out[r] = Fragments(pulled[r])

\* C6 witness: a stream of two different fragments around an event whose
\* data is not a string ended without a fault.
C6_Witness ==
  /\ rpc["r1"] = "done" /\ failed["r1"] = "none"
  /\ Len(pulled["r1"]) = 3
  /\ pulled["r1"][2].has_data /\ ~pulled["r1"][2].is_str
  /\ Len(out["r1"]) = 2 /\ out["r1"][1] # out["r1"][2]

\* C7 as stated: whatever backend step fails (tool listing, sandbox,
\* model session, stream), no fault leaves invoke, and the failure is
\* reported as one last fragment prefixed "I encountered an error: ".
C7_NoFaultLeavesInvoke ==
  \A r \in Requests :
    /\ rpc[r] # "raised"
    /\ (rpc[r] = "done" /\ failed[r] # "none") =>
         /\ out[r] # <<>>
         /\ out[r][Len(out[r])] = "I encountered an error: " \o err[r]

\* ------------------------------------------- token cache, later properties
\* Calls of _get_access_token started so far.
Started == Len(log) + Cardinality({c \in Callers : Active(c)})

\* The response of caller c is one its own call cannot survive.
OwnResponseFaulty(c) ==
  \/ ~response[c].reachable
  \/ ~response[c].body.json
  \/ ~response[c].body.has_token
  \/ response[c].body.exp_kind = "str"

\* C13: with callers racing on an absent or unusable cache the race costs
\* requests only: there are never more token requests than calls, a caller
\* that fetched returns the access token of its own response, a caller
\* fails only on its own response, and a caller inside the function can
\* always take its next step.
C13_RaceCostsRequestsOnly ==
  /\ requests <= Started
  /\ \A c \in Callers :
       /\ issued[c] <= 1
       /\ (pc[c] = "returned" /\ issued[c] = 1) => ret[c] = response[c].token
       /\ pc[c] = "raised" => (issued[c] = 1 /\ OwnResponseFaulty(c))
       /\ Active(c) => ENABLED GetAccessTokenStep(c)

\* C13 witness: two callers found the cache without a token, both issued a
\* token request and each returned its own token.
C13_Witness ==
  /\ \A c \in Callers :
       /\ pc[c] = "returned" /\ issued[c] = 1
       /\ ~Truthy(entry_cache[c].token)
  /\ ret["main"] # ret["worker"]
  /\ Len(log) = 2 /\ requests = 2

\* C17: a call whose request fails, whose body cannot be parsed or whose
\* body lacks access_token returns nothing and leaves the cache (token and
\* expires_at) as it found it, and the call after a failed call issues a
\* token request again.
C17_FailedCallLeavesCache ==
  /\ \A c \in Callers :
       (Completed(c) /\ issued[c] = 1
          /\ (~response[c].reachable \/ ~response[c].body.json
                \/ ~response[c].body.has_token)) =>
         /\ outcome[c] \in {"ConnectionError", "JSONDecodeError", "KeyError"}
         /\ ret[c] = None
         /\ token_cache = entry_cache[c]
  /\ \A i \in 1..(Len(log) - 1) : ~log[i].ok => log[i + 1].issued = 1

\* C17 witness: a token was cached, a later call failed on a body without
\* access_token and left it cached, and the call after that fetched again.
C17_Witness ==
  /\ Len(log) = 3
  /\ Fetched(1) /\ ~log[2].ok /\ log[2].issued = 1 /\ Fetched(3)
  /\ log[2].expires_at = log[1].expires_at
  /\ log[3].ret # log[1].ret

\* C18 as stated, observed while no caller is between lines 46 and 47 and
\* no call has failed: the cached token and the cached expires_at were
\* written from the same token response.
C18_TokenAndExpirySameResponse ==
  ((\A c \in Callers : pc[c] # "L47") /\ (\A i \in 1..Len(log) : log[i].ok)) =>
    expiry_of = token_cache.token

\* C19: a token stored from a response with expires_in <= 300 is never
\* served from the cache, and the call after the one that stored it issues
\* a token request.
C19_ShortLivedNeverServed ==
  \A i \in 1..Len(log) : \A j \in 1..Len(log) :
    (i < j /\ Fetched(i) /\ log[i].E <= SafetyBuffer) =>
      /\ log[j].issued = 0 => log[j].ret # log[i].ret
      /\ j = i + 1 => log[j].issued = 1

\* C19 witness: a token with expires_in = 300 was stored and the next two
\* calls, the first at the same clock reading, each fetched a new token.
C19_Witness ==
  /\ Len(log) = 3
  /\ Fetched(1) /\ log[1].E = 300
  /\ log[2].T = log[1].T /\ Fetched(2) /\ log[2].E = 300
  /\ Fetched(3)

\* ------------------------------------------ configuration and request steps
\* C11: when GATEWAY_URL is unset and local-dev mode is off,
\* get_streamable_http_mcp_client raises its configuration fault
\* (RuntimeError) with no token request issued, _get_access_token never
\* entered and the token cache as it was initially, and no client is built;
\* when local-dev mode is on, no token request is ever issued, the client is
\* not the gateway client and every request's tools list is empty.
C11_ConfigFaultBeforeAnyRequest ==
  /\ (~env.local_dev /\ ~env.gateway_url) =>
       /\ requests = 0
       /\ pc["main"] = "idle"
       /\ token_cache = [token |-> None, expires_at |-> 0]
       /\ strands_mcp_client = NoClient
       /\ import_pc \in {"L13", "L56", "failed"}
       /\ import_pc = "failed" => import_fault = "RuntimeError"
       /\ import_pc = "L56" => ENABLED GetClient
  /\ env.local_dev =>
       /\ requests = 0
       /\ pc["main"] = "idle"
       /\ strands_mcp_client.kind # "mcp"
       /\ \A r \in Requests : tools[r] = <<>>

\* The import has failed on the missing GATEWAY_URL, no request issued.
C11_Witness ==
  /\ ~env.local_dev
  /\ ~env.gateway_url
  /\ import_pc = "failed"
  /\ import_fault = "RuntimeError"
  /\ requests = 0

\* Request r is past the memory step of lines 158-184.
AfterMemory(r) == rpc[r] \notin {"idle", "L158"}

\* C12: the memory step never makes a request fail: past it, an unset
\* MEMORY_ID has logged a warning and a fault of the constructor an error,
\* both with session_manager None; the step itself never raises out of
\* invoke, is always followed by the sandbox step, and the request can go on
\* to build the session and run the stream (the witness).
C12_MemoryNeverFailsRequest ==
  \A r \in Requests :
    /\ rpc[r] = "L158" => ENABLED InitMemory(r)
    /\ AfterMemory(r) =>
         /\ ~env.memory_id =>
              (mem_log[r] = "warning" /\ session_manager[r] = "None")
         /\ env.memory_id => mem_log[r] \in {"info", "error"}
         /\ mem_log[r] = "error" => session_manager[r] = "None"
         /\ mem_log[r] = "info" => session_manager[r] = "manager"
         /\ failed[r] \notin {"memory"}
         /\ Len(steps[r]) >= 2
    /\ Len(steps[r]) = 2 =>
         (rpc[r] = "L188" /\ ENABLED CreateCodeInterpreter(r))

\* The memory constructor raised, and the request still built its session,
\* ran the stream to its end and delivered a fragment.
C12_Witness ==
  /\ env.memory_id
  /\ mem_log["r1"] = "error"
  /\ session_manager["r1"] = "None"
  /\ rpc["r1"] = "done"
  /\ failed["r1"] = "none"
  /\ Len(steps["r1"]) = 6
  /\ Len(out["r1"]) >= 1

\* The steps of a request, in the order of spec section 4.3.
StepOrder ==
  <<"RESOLVE_IDENTITY", "INIT_MEMORY", "INIT_SANDBOX", "ACQUIRE_TOOLS",
    "BUILD_SESSION", "RUN">>

\* Request r has ended: its generator is exhausted or a fault has left it.
Terminal(r) == rpc[r] \in {"exit", "done", "raised"}

\* The underlying stream of request r ended without a fault.
StreamExhausted(r) == Exhausted(r) /\ failed[r] = "none"

\* The synthetic error fragment of request r has been handed over.
ErrorEmitted(r) == Exhausted(r) /\ failed[r] = "stream"

\* C14: every request runs its steps in the fixed order RESOLVE_IDENTITY,
\* INIT_MEMORY, INIT_SANDBOX, ACQUIRE_TOOLS, BUILD_SESSION, RUN, each at most
\* once, and it is terminal exactly when its stream is exhausted or the
\* synthetic error fragment has been emitted.
C14_FixedOrderAndTerminal ==
  \A r \in Requests :
    /\ Len(steps[r]) <= Len(StepOrder)
    /\ steps[r] = SubSeq(StepOrder, 1, Len(steps[r]))
    /\ Terminal(r) <=> (StreamExhausted(r) \/ ErrorEmitted(r))

AllButLast(s) == SubSeq(s, 1, Len(s) - 1)

\* C15: fragments are handed over one by one, each before the next event
\* is pulled: whenever invoke is about to pull (line 232) the caller has
\* exactly the text fragments of the events pulled so far; when it is about
\* to yield (line 235) the caller has those of all events but the last, which
\* is a text event; and once the stream has ended or faulted nothing more is
\* pulled or handed over, so the sequence is finite.
C15_ForwardedBeforeNextPull ==
  \A r \in Requests :
    /\ ENABLED Pull(r) => out[r] = Fragments(pulled[r])
    /\ rpc[r] = "L232" => out[r] = Fragments(pulled[r])
    /\ rpc[r] = "L235" =>
         /\ pulled[r] # <<>>
         /\ IsText(pulled[r][Len(pulled[r])])
         /\ out[r] = Fragments(AllButLast(pulled[r]))
    /\ rpc[r] = "L246" => out[r] = Fragments(pulled[r])
    /\ Exhausted(r) =>
         /\ ~ENABLED Pull(r)
         /\ ~ENABLED Yield(r)
         /\ ~ENABLED YieldError(r)
         /\ Len(out[r]) <= Len(pulled[r]) + 1
    /\ rpc[r] = "done" => ~ENABLED InvokeStep(r)

\* Two text events pulled, the first one's fragment already with the
\* caller, the second one's about to be handed over.
C15_Witness ==
  /\ rpc["r1"] = "L235"
  /\ Len(pulled["r1"]) = 2
  /\ IsText(pulled["r1"][1])
  /\ out["r1"] = <<pulled["r1"][1].data>>

\* C16: the gateway client a request enters at line 195 is private to it:
\* no other request is inside the same client at that moment.
C16_ClientPrivateToRequest ==
  \A r \in Requests :
    (rpc[r] = "L195" /\ strands_mcp_client.kind = "mcp") =>
      client_users \ {r} = {}
====
